---- MODULE Spec2Model ----
(***************************************************************************)
(* Fixed-window request rate limiter of                                    *)
(* server/src/middleware/rate-limiter.middleware.ts.                       *)
(*                                                                         *)
(* One process-wide Map (rateLimitStore) keyed by `${ip}:${req.path}`, a   *)
(* factory rateLimiter(options) returning a synchronous Express handler,   *)
(* and a setInterval callback that deletes expired entries.  JavaScript    *)
(* runs each handler call and each timer callback to completion, so each   *)
(* is one action.  The handler never suspends (no await, no I/O), so       *)
(* requests that are in flight at the same time reach it one after another *)
(* in some order, possibly at the same clock reading: every order of calls *)
(* is a behaviour of this specification.                                   *)
(*                                                                         *)
(* Times are milliseconds as returned by Date.now(), taken relative to the *)
(* moment the module was loaded and assumed not to run backwards.          *)
(***************************************************************************)
EXTENDS Integers, Sequences, FiniteSets, TLC

VARIABLES
    now,          \* the value Date.now() returns
    nextSweep,    \* the time at which the setInterval callback is next due
    rateLimitStore, \* Map<string, RateLimitEntry>: a function on its keys
    options,      \* the RateLimitOptions each limiter instance closed over
    handled,      \* number of handler calls so far
    last,         \* the latest handler call: its limiter, request and time,
                  \* whether it found an entry, and the entry it left
    effects,      \* what it did to (res, next), in order
    win,          \* history: per key, the requests of its current window
    nsStore,      \* shadow: the table of a run in which no sweep ever runs
    nsEffects,    \* shadow: what the latest handler call does on nsStore
    own,          \* shadow: per limiter, a table only that limiter touches
    ownEffects    \* shadow: what the latest handler call does on own[lim]

vars == <<now, nextSweep, rateLimitStore, options, handled, last, effects,
          win, nsStore, nsEffects, own, ownEffects>>

----------------------------------------------------------------------------
(* Bounds of the model *)

\* handler calls in one behaviour
MaxRequests == 3
\* the clock advances in steps of TickMs (or by a whole CLEANUP_INTERVAL)
TickMs == 500
\* the clock is followed for Horizon ms, and for TickMs more once the first
\* sweep is due
Horizon == 1500

----------------------------------------------------------------------------
(* JavaScript values *)

\* the value undefined, where a string is expected
Undefined == "<undefined>"

\* what `a || b` tests: undefined and the empty string are falsy
Falsy(v) == v = Undefined \/ v = ""

Or(a, b) == IF Falsy(a) THEN b ELSE a

Digits == <<"0", "1", "2", "3", "4", "5", "6", "7", "8", "9">>

RECURSIVE Decimal(_)
Decimal(n) ==
    IF n < 10 THEN Digits[n + 1]
    ELSE Decimal(n \div 10) \o Digits[(n % 10) + 1]

\* String(n) for an integer n
String(n) == IF n < 0 THEN "-" \o Decimal(0 - n) ELSE Decimal(n)

\* Math.max(a, b)
Max(a, b) == IF a >= b THEN a ELSE b

\* Math.ceil(a / b) for b > 0 (integer division here rounds down)
CeilDiv(a, b) == 0 - ((0 - a) \div b)

\* Map.prototype.set
MapSet(m, k, v) == [x \in DOMAIN m \cup {k} |-> IF x = k THEN v ELSE m[x]]

EmptyMap == [x \in {} |-> 0]

----------------------------------------------------------------------------
(* The module's constants and the limiter instances *)

CLEANUP_INTERVAL == 10 * 60 * 1000

Limiters == {"standardLimiter", "authLimiter"}

\* The options of the two exported instances, windows and ceilings scaled
\* down (windowMs > 0, maxRequests >= 1 as in the source): the standard one
\* looser with the shorter window, the auth one stricter with the longer
\* window; the auth one is given no message, so that the default message is
\* built as well.
standardLimiter ==
    [windowMs |-> 500, maxRequests |-> 2,
     message |-> "Too many requests from this IP, please try again after a minute"]

authLimiter ==
    [windowMs |-> 1500, maxRequests |-> 1, message |-> Undefined]

\* rateLimiter(options): the options the returned handler closes over
rateLimiter(lim) == IF lim = "standardLimiter" THEN standardLimiter ELSE authLimiter

\* The requests the host hands to the middleware: req.ip,
\* req.socket.remoteAddress, req.path, and whether reading req.ip throws
Requests ==
    { [ip |-> Undefined, remoteAddress |-> "::1", path |-> "/a", throws |-> FALSE],
      [ip |-> "::1", remoteAddress |-> "::", path |-> "/a:", throws |-> FALSE],
      [ip |-> "", remoteAddress |-> Undefined, path |-> "/a", throws |-> FALSE],
      [ip |-> Undefined, remoteAddress |-> Undefined, path |-> "/a", throws |-> TRUE] }

MaxTime == CLEANUP_INTERVAL + TickMs

----------------------------------------------------------------------------
(* The handler returned by rateLimiter(options) *)

\* the identifier without the sentinel to fall back on
ClientIpNoSentinel(req) == Or(req.ip, req.remoteAddress)

\* const ip = req.ip || req.socket.remoteAddress || 'unknown'
ClientIp(req) == Or(Or(req.ip, req.remoteAddress), "unknown")

\* the key without the route
KeyIpOnly(req) == ClientIp(req)

\* const key = `${ip}:${req.path}`
Key(req) == ClientIp(req) \o ":" \o req.path

\* the window still counted as active at the very instant it ends
WindowOverStrict(store, key, t) ==
    key \notin DOMAIN store \/ store[key].resetAt < t

\* !entry || entry.resetAt <= now
WindowOver(store, key, t) ==
    key \notin DOMAIN store \/ store[key].resetAt <= t

\* a new window that does not count the request that opens it
NewEntryFromZero(opts, t) == [count |-> 0, resetAt |-> t + opts.windowMs]

\* entry = { count: 1, resetAt: now + options.windowMs }
NewEntry(opts, t) == [count |-> 1, resetAt |-> t + opts.windowMs]

\* an increment that is lost
IncrementLost(entry) == entry

\* an increment that also pushes the end of the window back
IncrementedExtending(entry) ==
    [entry EXCEPT !.count = @ + 1, !.resetAt = @ + 1000]

\* entry.count += 1
Incremented(entry) == [entry EXCEPT !.count = @ + 1]

\* the ceiling itself already counted as exceeded
ExceededAtLimit(opts, entry) == entry.count >= opts.maxRequests

\* one request too many let through
ExceededPastLimit(opts, entry) == entry.count > opts.maxRequests + 1

\* entry.count > options.maxRequests
Exceeded(opts, entry) == entry.count > opts.maxRequests

\* rounding down instead of up
ResetInSecondsFloor(entry, t) == (entry.resetAt - t) \div 1000

\* Math.ceil((entry.resetAt - now) / 1000)
ResetInSeconds(entry, t) == CeilDiv(entry.resetAt - t, 1000)

SetHeader(name, value) == [op |-> "setHeader", name |-> name, value |-> value]

NextCall(err) == [op |-> "next", name |-> err.kind, value |-> err]

NoError == [kind |-> "none", message |-> "", statusCode |-> 0, retryAfter |-> 0]

\* whatever the failing expression threw
Thrown == [kind |-> "thrown", message |-> "", statusCode |-> 0, retryAfter |-> 0]

\* new ApiError(errorMessage, 429, { retryAfter: resetInSeconds })
RateError(opts, secs) ==
    [kind |-> "ApiError",
     message |-> Or(opts.message,
                    "Too many requests, please try again in "
                        \o String(secs) \o " seconds"),
     statusCode |-> 429,
     retryAfter |-> secs]

\* the reset header carrying the window length instead of its end
FreshHeadersRelativeReset(opts, entry) ==
    << SetHeader("X-RateLimit-Limit", String(opts.maxRequests)),
       SetHeader("X-RateLimit-Remaining", String(opts.maxRequests - 1)),
       SetHeader("X-RateLimit-Reset", String(opts.windowMs)) >>

\* the three headers of the first branch
FreshHeaders(opts, entry) ==
    << SetHeader("X-RateLimit-Limit", String(opts.maxRequests)),
       SetHeader("X-RateLimit-Remaining", String(opts.maxRequests - 1)),
       SetHeader("X-RateLimit-Reset", String(entry.resetAt)) >>

\* the remaining quota without the clamp at zero
CountedHeadersUnclamped(opts, entry) ==
    << SetHeader("X-RateLimit-Limit", String(opts.maxRequests)),
       SetHeader("X-RateLimit-Remaining",
                 String(opts.maxRequests - entry.count)),
       SetHeader("X-RateLimit-Reset", String(entry.resetAt)) >>

\* the three headers after an increment
CountedHeaders(opts, entry) ==
    << SetHeader("X-RateLimit-Limit", String(opts.maxRequests)),
       SetHeader("X-RateLimit-Remaining",
                 String(Max(0, opts.maxRequests - entry.count))),
       SetHeader("X-RateLimit-Reset", String(entry.resetAt)) >>

\* the denial without its return: control falls through to next()
DenyFallThrough(opts, entry, t) ==
    << SetHeader("Retry-After", String(ResetInSeconds(entry, t))),
       NextCall(RateError(opts, ResetInSeconds(entry, t))),
       NextCall(NoError) >>

\* the branch taken when the limit is exceeded
Deny(opts, entry, t) ==
    << SetHeader("Retry-After", String(ResetInSeconds(entry, t))),
       NextCall(RateError(opts, ResetInSeconds(entry, t))) >>

\* an error that is caught and dropped
CaughtSwallowed(store) == [store |-> store, effects |-> <<>>]

\* catch (error) { next(error) }, entered before the table was written
Caught(store) == [store |-> store, effects |-> <<NextCall(Thrown)>>]

\* One call of the handler on table `store` at time t: the table it leaves
\* and what it did to the response and the continuation, in order.
Handle(opts, req, store, t) ==
    IF req.throws
    THEN Caught(store)
    ELSE LET key == Key(req) IN
         IF WindowOver(store, key, t)
         THEN LET entry == NewEntry(opts, t) IN
              [store |-> MapSet(store, key, entry),
               effects |-> FreshHeaders(opts, entry) \o <<NextCall(NoError)>>]
         ELSE LET entry == Incremented(store[key]) IN
              [store |-> MapSet(store, key, entry),
               effects |-> CountedHeaders(opts, entry) \o
                           (IF Exceeded(opts, entry)
                            THEN Deny(opts, entry, t)
                            ELSE <<NextCall(NoError)>>)]

----------------------------------------------------------------------------
(* The setInterval callback *)

\* an entry kept at the very instant its window ends
ExpiredStrict(entry, t) == entry.resetAt < t

\* entry.resetAt <= now
Expired(entry, t) == entry.resetAt <= t

\* a sweep that clears the whole table
SweptAll(store, t) == [k \in {} |-> 0]

\* a sweep that empties expired entries and leaves their keys in the table
SweptZeroed(store, t) ==
    [k \in DOMAIN store |->
        IF store[k].resetAt <= t THEN [count |-> 0, resetAt |-> 0] ELSE store[k]]

\* rateLimitStore.forEach(... delete ...)
Swept(store, t) ==
    [k \in {x \in DOMAIN store : ~Expired(store[x], t)} |-> store[k]]

----------------------------------------------------------------------------
(* Reading what a handler call did *)

\* the value the response carries for header `name`, Undefined when not set
Header(eff, name) ==
    LET at == {i \in 1..Len(eff) : eff[i].op = "setHeader" /\ eff[i].name = name}
    IN  IF at = {} THEN Undefined
        ELSE eff[CHOOSE i \in at : \A j \in at : j <= i].value

\* the positions at which the continuation was called
NextCalls(eff) == {i \in 1..Len(eff) : eff[i].op = "next"}

\* next() was called with no argument
Admitted(eff) == \E i \in NextCalls(eff) : eff[i].name = "none"

\* next(rateError) was called
Denied(eff) == \E i \in NextCalls(eff) : eff[i].name = "ApiError"

\* the error handed to the continuation
ErrorOf(eff) == eff[CHOOSE i \in NextCalls(eff) : eff[i].name # "none"].value

----------------------------------------------------------------------------
(* History kept beside the program: the requests of each key's current    *)
(* window, a window being the span from a request that finds no entry or  *)
(* an expired one up to the resetAt computed for that request.            *)

NoEntry == [count |-> 0, resetAt |-> 0]

\* the entry table `store` holds for the key of req
EntryOf(store, req) ==
    IF ~req.throws /\ Key(req) \in DOMAIN store THEN store[Key(req)] ELSE NoEntry

NoRequest ==
    [lim |-> "", now |-> 0, hit |-> FALSE, nsHit |-> FALSE,
     entry |-> NoEntry, ownEntry |-> NoEntry,
     req |-> [ip |-> "", remoteAddress |-> "", path |-> "", throws |-> TRUE]]

NoWindow ==
    [resetAt |-> 0, times |-> <<>>, admitted |-> 0, lims |-> {}, by |-> ""]

\* Per key: its current window (the time its window ends, the times of its
\* requests, how many were admitted, the limiters that handled them and the
\* one that opened it), the window before it, and the log of every decided
\* request of the key with its outcome.
WinAfter(w, lim, opts, req, t, eff) ==
    IF req.throws THEN w
    ELSE LET key == Key(req)
             adm == IF Admitted(eff) THEN 1 ELSE 0
             old == IF key \in DOMAIN w THEN w[key].cur ELSE NoWindow
             log == IF key \in DOMAIN w THEN w[key].log ELSE <<>>
             rec == [t |-> t, lim |-> lim, adm |-> Admitted(eff),
                     retry |-> IF Denied(eff) THEN ErrorOf(eff).retryAfter ELSE 0]
         IN  IF old.resetAt <= t
             THEN MapSet(w, key,
                         [cur |-> [resetAt |-> t + opts.windowMs, times |-> <<t>>,
                                   admitted |-> adm, lims |-> {lim}, by |-> lim],
                          prev |-> old,
                          log |-> Append(log, rec)])
             ELSE MapSet(w, key,
                         [w[key] EXCEPT !.cur.times = Append(@, t),
                                        !.cur.admitted = @ + adm,
                                        !.cur.lims = @ \cup {lim},
                                        !.log = Append(@, rec)])

----------------------------------------------------------------------------
(* The state machine *)

Init ==
    /\ now = 0
    /\ nextSweep = CLEANUP_INTERVAL
    /\ rateLimitStore = EmptyMap
    /\ options = [l \in Limiters |-> rateLimiter(l)]
    /\ handled = 0
    /\ last = NoRequest
    /\ effects = <<>>
    /\ win = EmptyMap
    /\ nsStore = EmptyMap
    /\ nsEffects = <<>>
    /\ own = [l \in Limiters |-> EmptyMap]
    /\ ownEffects = <<>>

\* The handler of limiter instance lim runs on request req.
Request(req, lim) ==
    /\ handled < MaxRequests
    /\ handled' = handled + 1
    /\ LET opts == options[lim]
           r    == Handle(opts, req, rateLimitStore, now)
           ns   == Handle(opts, req, nsStore, now)
           o    == Handle(opts, req, own[lim], now)
       IN  /\ rateLimitStore' = r.store
           /\ effects' = r.effects
           /\ last' = [lim |-> lim, req |-> req, now |-> now,
                       hit |-> ~req.throws /\ Key(req) \in DOMAIN rateLimitStore,
                       nsHit |-> ~req.throws /\ Key(req) \in DOMAIN nsStore,
                       entry |-> EntryOf(r.store, req),
                       ownEntry |-> EntryOf(o.store, req)]
           /\ win' = WinAfter(win, lim, opts, req, now, r.effects)
           /\ nsStore' = ns.store
           /\ nsEffects' = ns.effects
           /\ own' = [own EXCEPT ![lim] = o.store]
           /\ ownEffects' = o.effects
    /\ UNCHANGED <<now, nextSweep, options>>

\* The setInterval callback runs, CLEANUP_INTERVAL or more after the last run.
Sweep ==
    /\ now >= nextSweep
    /\ rateLimitStore' = Swept(rateLimitStore, now)
    /\ own' = [l \in Limiters |-> Swept(own[l], now)]
    /\ nextSweep' = now + CLEANUP_INTERVAL
    /\ UNCHANGED <<now, options, handled, last, effects, win,
                   nsStore, nsEffects, ownEffects>>

\* Time passes.
Tick(d) ==
    /\ d = TickMs => now + d <= Horizon \/ now >= CLEANUP_INTERVAL
    /\ now + d <= MaxTime
    /\ now' = now + d
    /\ UNCHANGED <<nextSweep, rateLimitStore, options, handled, last, effects,
                   win, nsStore, nsEffects, own, ownEffects>>

Next ==
    \/ \E req \in Requests, lim \in Limiters : Request(req, lim)
    \/ Sweep
    \/ \E d \in {TickMs, CLEANUP_INTERVAL} : Tick(d)

Spec == Init /\ [][Next]_vars

----------------------------------------------------------------------------
(* Properties *)

\* the latest handler call reached an admission decision
Decided == handled > 0 /\ ~last.req.throws

LastKey == Key(last.req)

LastOpts == options[last.lim]

Min(a, b) == IF a <= b THEN a ELSE b

Quota == {"X-RateLimit-Limit", "X-RateLimit-Remaining", "X-RateLimit-Reset"}

\* C1: when every request of a key's current window went to one limiter
\* (maxRequests >= 1), the N-th request of the window is admitted, with no
\* error, if N <= maxRequests, and is denied with an error of status 429 if
\* N > maxRequests.
C1_QuotaPerWindow ==
    Decided =>
        LET w == win[LastKey].cur
            N == Len(w.times)
            m == LastOpts.maxRequests
        IN  (w.lims = {last.lim} /\ m >= 1) =>
                IF N <= m
                THEN Admitted(effects) /\ ~Denied(effects)
                ELSE /\ Denied(effects) /\ ~Admitted(effects)
                     /\ ErrorOf(effects).statusCode = 429

\* two requests of one window admitted by a limiter of ceiling 2, the third
\* denied
C1_Witness ==
    /\ Decided
    /\ win[LastKey].cur.lims = {last.lim}
    /\ LastOpts.maxRequests = 2
    /\ Len(win[LastKey].cur.times) = 3
    /\ win[LastKey].cur.admitted = 2
    /\ Denied(effects)

\* C2: a request that finds its key's entry with resetAt <= now replaces the
\* entry by count = 1, resetAt = now + windowMs and is admitted, whatever the
\* old window saw.
C2_FreshWindowAfterReset ==
    [][(handled' # handled /\ ~last'.req.throws) =>
         LET k == Key(last'.req) IN
         (k \in DOMAIN rateLimitStore /\ rateLimitStore[k].resetAt <= now) =>
            /\ rateLimitStore'[k] =
                  [count |-> 1, resetAt |-> now + options[last'.lim].windowMs]
            /\ Admitted(effects') /\ ~Denied(effects')]_vars

\* a request admitted into a fresh window over an expired entry whose window
\* had seen a denial
C2_Witness ==
    /\ Decided
    /\ last.hit
    /\ Len(win[LastKey].cur.times) = 1
    /\ Len(win[LastKey].prev.times) > win[LastKey].prev.admitted
    /\ last.entry.count = 1
    /\ Admitted(effects)

\* C3: a request of one (identifier, route) pair leaves the entry of every
\* other pair as it was, and with it the outcome any limiter would compute
\* for a request of that other pair.
C3_KeysIsolated ==
    [][(handled' # handled /\ ~last'.req.throws) =>
         \A r \in Requests :
            (/\ ~r.throws
             /\ <<ClientIp(r), r.path>> # <<ClientIp(last'.req), last'.req.path>>)
            => /\ Key(r) \in DOMAIN rateLimitStore' <=> Key(r) \in DOMAIN rateLimitStore
               /\ Key(r) \in DOMAIN rateLimitStore =>
                     rateLimitStore'[Key(r)] = rateLimitStore[Key(r)]
               /\ \A l \in Limiters :
                     Handle(options[l], r, rateLimitStore', now).effects
                       = Handle(options[l], r, rateLimitStore, now).effects]_vars

\* a first request of one pair admitted while another pair's window is
\* active and has already seen a denial
C3_Witness ==
    /\ Decided
    /\ Admitted(effects)
    /\ last.entry.count = 1
    /\ \E k \in DOMAIN rateLimitStore \ {LastKey} :
          /\ rateLimitStore[k].resetAt > now
          /\ Len(win[k].cur.times) > win[k].cur.admitted

\* C4: when the limiter instances have different policies, what an instance
\* computes for a request, and the entry it leaves, are what it would
\* compute on a table no other instance touches.
C4_InstancesIndependent ==
    (Decided /\ \A l \in Limiters \ {last.lim} : options[l] # LastOpts) =>
        /\ effects = ownEffects
        /\ last.entry = last.ownEntry

\* C5: in every order of handler calls, a window whose requests all went to
\* one limiter has admitted exactly min(requests, maxRequests) of them, and
\* the entry of a key counts every request of its window.
C5_ExactlyMaxAdmitted ==
    \A k \in DOMAIN win :
        LET w == win[k].cur IN
        /\ \A l \in Limiters :
              w.lims = {l} =>
                 w.admitted = Min(Len(w.times), options[l].maxRequests)
        /\ k \in DOMAIN rateLimitStore =>
              rateLimitStore[k] = [count |-> Len(w.times), resetAt |-> w.resetAt]

\* the request that reaches the ceiling and the one that exceeds it handled
\* at the same instant
C5_Witness ==
    \E k \in DOMAIN win, l \in Limiters :
        LET w == win[k].cur
            m == options[l].maxRequests
        IN  /\ w.lims = {l}
            /\ Len(w.times) > m
            /\ w.times[m] = w.times[m + 1]
            /\ w.admitted = m

\* C6: after every decided request X-RateLimit-Remaining is the decimal of
\* max(0, maxRequests - count), count being the count of the entry the
\* request left; it is never negative.
C6_RemainingHeader ==
    Decided =>
        LET m == LastOpts.maxRequests
            c == last.entry.count
        IN  /\ Header(effects, "X-RateLimit-Remaining")
                 = String(IF m - c > 0 THEN m - c ELSE 0)
            /\ Header(effects, "X-RateLimit-Remaining")
                 \in {String(n) : n \in 0..m}

\* a denied request whose count is past the ceiling
C6_Witness ==
    /\ Decided
    /\ Denied(effects)
    /\ last.entry.count > LastOpts.maxRequests
    /\ Header(effects, "X-RateLimit-Remaining") = "0"

\* C7: a denied request hands the continuation one error, of status 429,
\* whose retryAfter is the least number of whole seconds covering
\* resetAt - now at the time of the call, the Retry-After header carries the same number, and the
\* request is not forwarded.
C7_DenialError ==
    (Decided /\ Denied(effects)) =>
        LET e == ErrorOf(effects)
            d == last.entry.resetAt - last.now
        IN  /\ e.statusCode = 429
            /\ e.retryAfter * 1000 >= d
            /\ (e.retryAfter - 1) * 1000 < d
            /\ Header(effects, "Retry-After") = String(e.retryAfter)
            /\ ~Admitted(effects)
            /\ Cardinality(NextCalls(effects)) = 1

\* a denial one and a half seconds before the window ends
C7_Witness ==
    /\ Decided
    /\ Denied(effects)
    /\ last.entry.resetAt - last.now = 1500
    /\ ErrorOf(effects).retryAfter = 2
    /\ Header(effects, "Retry-After") = "2"

\* C8: on every decided request the three quota headers are set before the
\* continuation is called: the limit is maxRequests and the reset is the
\* resetAt of the key's entry.
C8_QuotaHeaders ==
    Decided =>
        /\ NextCalls(effects) # {}
        /\ \A i \in NextCalls(effects), h \in Quota :
              \E j \in 1..(i - 1) :
                 effects[j].op = "setHeader" /\ effects[j].name = h
        /\ Header(effects, "X-RateLimit-Limit") = String(LastOpts.maxRequests)
        /\ Header(effects, "X-RateLimit-Reset")
              = String(last.entry.resetAt)
        /\ Header(effects, "X-RateLimit-Remaining") # Undefined

\* an admitted first request of a window and its reset header
C8_Witness ==
    /\ Decided
    /\ Admitted(effects)
    /\ last.entry = [count |-> 1, resetAt |-> 1500]
    /\ Header(effects, "X-RateLimit-Reset") = "1500"
    /\ Header(effects, "X-RateLimit-Limit") = "1"

\* C9: a sweep leaves exactly the entries with resetAt > now, unchanged.
C9_SweepRemovesExpired ==
    [][nextSweep' # nextSweep =>
         /\ DOMAIN rateLimitStore' =
               {k \in DOMAIN rateLimitStore : rateLimitStore[k].resetAt > now}
         /\ \A k \in DOMAIN rateLimitStore' :
               rateLimitStore'[k] = rateLimitStore[k]]_vars

\* after the latest handler call a sweep removed that call's entry, expired,
\* and kept another one, active
C9_Witness ==
    /\ nextSweep > CLEANUP_INTERVAL
    /\ Decided
    /\ LastKey \notin DOMAIN rateLimitStore
    /\ \E k \in DOMAIN rateLimitStore : rateLimitStore[k].resetAt > now

\* C10: every handler call does to the response and the continuation what
\* it does in the run without sweeps, and the two tables agree on every
\* entry either holds that is still active.
C10_SweepInvisible ==
    /\ handled > 0 => effects = nsEffects
    /\ \A k \in DOMAIN rateLimitStore : rateLimitStore[k] = nsStore[k]
    /\ \A k \in DOMAIN nsStore :
          nsStore[k].resetAt > now => k \in DOMAIN rateLimitStore

\* a request for a key whose entry a sweep had removed
C10_Witness ==
    /\ Decided
    /\ last.nsHit /\ ~last.hit
    /\ Admitted(effects)
    /\ effects = nsEffects

\* C11: a handler call in which resolving the identifier throws leaves the
\* table as it was and does nothing but hand the thrown error to the
\* continuation, once.
C11_FailureForwarded ==
    [][(handled' # handled /\ last'.req.throws) =>
         /\ rateLimitStore' = rateLimitStore
         /\ Len(effects') = 1
         /\ effects'[1].op = "next"
         /\ effects'[1].name = "thrown"]_vars

\* a failing call while the table holds an entry
C11_Witness ==
    /\ handled > 0
    /\ last.req.throws
    /\ rateLimitStore # EmptyMap
    /\ NextCalls(effects) = {1}

\* C12: a request that finds its key's entry with resetAt > now adds exactly
\* 1 to its count, admitted or denied; a request that finds no entry, or one
\* with resetAt <= now, leaves count = 1; no step changes the count of any
\* other entry that stays in the table, and no step lowers a count otherwise.
C12_CountPerWindow ==
    [][\A k \in DOMAIN rateLimitStore' :
         LET asked == handled' # handled /\ ~last'.req.throws /\ k = Key(last'.req)
             live  == k \in DOMAIN rateLimitStore /\ rateLimitStore[k].resetAt > now
         IN  IF asked
             THEN rateLimitStore'[k].count =
                     IF live THEN rateLimitStore[k].count + 1 ELSE 1
             ELSE /\ k \in DOMAIN rateLimitStore
                  /\ rateLimitStore'[k].count = rateLimitStore[k].count]_vars

\* a third request of a window counted after the second was already denied
C12_Witness ==
    /\ Decided
    /\ Denied(effects)
    /\ last.entry.count = 3
    /\ Len(win[LastKey].cur.times) = 3
    /\ win[LastKey].cur.admitted = 1

\* C13: the resetAt of every entry in the table is the time of the request
\* that opened its window plus the windowMs of the limiter that handled that
\* request, whatever requests, admitted or denied, came after it.
C13_ResetAtFixed ==
    \A k \in DOMAIN rateLimitStore :
        LET w == win[k].cur IN
        rateLimitStore[k].resetAt = w.times[1] + options[w.by].windowMs

\* a request denied later than the one that opened its window
C13_Witness ==
    /\ Decided
    /\ Denied(effects)
    /\ LastKey \in DOMAIN rateLimitStore
    /\ last.now > win[LastKey].cur.times[1]
    /\ rateLimitStore[LastKey].resetAt
          = win[LastKey].cur.times[1] + options[win[LastKey].cur.by].windowMs

\* the requests of log admitted at a time in [from, from + span]
AdmittedIn(log, from, span) ==
    {j \in 1..Len(log) : log[j].adm /\ log[j].t >= from /\ log[j].t <= from + span}

\* C14: for a key all of whose requests went to one limiter, the requests
\* admitted in any span of windowMs (both ends included) number at most
\* 2 x maxRequests.
C14_TwiceMaxPerSpan ==
    \A k \in DOMAIN win, l \in Limiters :
        LET log == win[k].log IN
        (\A i \in 1..Len(log) : log[i].lim = l) =>
            \A i \in 1..Len(log) :
                Cardinality(AdmittedIn(log, log[i].t, options[l].windowMs))
                    <= 2 * options[l].maxRequests

\* 2 x maxRequests requests admitted within one span of windowMs: the quota
\* of one window, and the quota of the next taken at the instant the first
\* window ends
C14_Witness ==
    \E k \in DOMAIN win, l \in Limiters :
        LET log == win[k].log
            w   == win[k]
        IN  /\ \A i \in 1..Len(log) : log[i].lim = l
            /\ Cardinality(AdmittedIn(log, log[1].t, options[l].windowMs))
                  = 2 * options[l].maxRequests
            /\ w.prev.admitted = options[l].maxRequests
            /\ w.cur.admitted = options[l].maxRequests
            /\ w.cur.times[1] = w.prev.resetAt

\* C15: with sweeps running between handler calls in any order, every entry
\* in the table has both fields, count >= 1 and resetAt later than the
\* request that opened its window; and a request whose key the sweep has
\* removed opens a new window with count = 1 instead of incrementing the
\* removed entry.
C15_SweepNeverCorrupts ==
    /\ \A k \in DOMAIN rateLimitStore :
          /\ DOMAIN rateLimitStore[k] = {"count", "resetAt"}
          /\ rateLimitStore[k].count >= 1
          /\ rateLimitStore[k].resetAt > win[k].cur.times[1]
    /\ (Decided /\ last.nsHit /\ ~last.hit) =>
          last.entry = [count |-> 1,
                        resetAt |-> last.now + LastOpts.windowMs]

\* a request that reopens a key the sweep had removed, while the table
\* holds another key's entry
C15_Witness ==
    /\ Decided
    /\ last.nsHit /\ ~last.hit
    /\ last.entry.count = 1
    /\ nsStore[LastKey] = last.entry
    /\ \E k \in DOMAIN rateLimitStore \ {LastKey} : k \in DOMAIN nsStore

\* req.ip and req.socket.remoteAddress both undefined or empty
Unidentified(req) == Falsy(req.ip) /\ Falsy(req.remoteAddress)

\* C16: a request with neither req.ip nor a remote address is keyed
\* "unknown:" and its path, whichever of the two is undefined or empty; it
\* is counted in that key's entry and admitted or denied like any other
\* request, never failed.
C16_UnknownSentinel ==
    /\ \A ip \in {Undefined, ""}, ra \in {Undefined, ""}, p \in {"/a", "/a:"} :
          Key([ip |-> ip, remoteAddress |-> ra, path |-> p, throws |-> FALSE])
             = "unknown:" \o p
    /\ (Decided /\ Unidentified(last.req)) =>
          LET k == "unknown:" \o last.req.path IN
          /\ k \in DOMAIN win
          /\ last.entry.count = Len(win[k].cur.times)
          /\ Cardinality(NextCalls(effects)) = 1
          /\ Admitted(effects) = ~Denied(effects)
          /\ Denied(effects) = (last.entry.count > LastOpts.maxRequests)

\* a second unidentified request of a route counted with the first
C16_Witness ==
    /\ Decided
    /\ Unidentified(last.req)
    /\ "unknown:/a" \in DOMAIN rateLimitStore
    /\ rateLimitStore["unknown:/a"].count = 2
    /\ last.entry = rateLimitStore["unknown:/a"]

\* C17: every denial tells a retryAfter of at least 1, and a request that is
\* the next one handled for the key of a denial, at retryAfter x 1000 ms or
\* more after that denial, is admitted.
C17_RetryAfterSuffices ==
    [][(handled' # handled /\ ~last'.req.throws) =>
         LET k    == Key(last'.req)
             log  == IF k \in DOMAIN win THEN win[k].log ELSE <<>>
             prev == log[Len(log)]
         IN  /\ Denied(effects') => ErrorOf(effects').retryAfter >= 1
             /\ (/\ Len(log) > 0
                 /\ ~prev.adm
                 /\ now >= prev.t + prev.retry * 1000)
                => Admitted(effects') /\ ~Denied(effects')]_vars

\* the request after a denial admitted over the denied window's entry, which
\* is still in the table, exactly retryAfter seconds after the denial
C17_Witness ==
    /\ Decided
    /\ Admitted(effects)
    /\ last.hit
    /\ LET log == win[LastKey].log IN
       /\ Len(log) >= 2
       /\ ~log[Len(log) - 1].adm
       /\ log[Len(log) - 1].retry >= 1
       /\ last.now = log[Len(log) - 1].t + log[Len(log) - 1].retry * 1000

\* C18: every handler call calls the continuation exactly once, as the last
\* thing it does: with the thrown error when resolving the identifier
\* failed, with the rate error when the count it left exceeds maxRequests,
\* with no argument otherwise; Retry-After is set exactly on the denials.
C18_NextExactlyOnce ==
    handled > 0 =>
        /\ NextCalls(effects) = {Len(effects)}
        /\ effects[Len(effects)].name =
              IF last.req.throws THEN "thrown"
              ELSE IF last.entry.count > LastOpts.maxRequests THEN "ApiError"
              ELSE "none"
        /\ (Header(effects, "Retry-After") # Undefined) = Denied(effects)

\* a denial: Retry-After set, then the one call of the continuation
C18_Witness ==
    /\ handled > 0
    /\ Denied(effects)
    /\ Len(effects) = 5
    /\ effects[4].op = "setHeader" /\ effects[4].name = "Retry-After"
    /\ NextCalls(effects) = {5}

====
